---- MODULE Spec2Model ----
(***************************************************************************)
(* Model of src/src/chunk_type.rs: the ChunkType value of a PNG chunk,     *)
(* its two constructors (TryFrom<[u8; 4]> and FromStr), its Display        *)
(* rendering, its accessors and its derived equality.                      *)
(*                                                                         *)
(* A text (&str) is a sequence of Unicode code points; its bytes are its   *)
(* UTF-8 encoding, so string.len() is Len(as_bytes(string)).  A byte is a  *)
(* number in 0..255.  A Result is a record with tag "Ok", "Err" or         *)
(* "Panic"; val holds the constructed value (a sequence of length 0 or 1). *)
(***************************************************************************)
EXTENDS Integers, Sequences, FiniteSets

\* ---------------------------------------------------------------- bounds
\* longest text, in characters, handed to from_str
MaxLen == 5

\* bytes: [u8; 4]
ChunkLen == 4

\* ---------------------------------------------------------------- inputs
\* digit, punctuation, upper case, lower case, punctuation, non-ASCII
ByteSamples == {49, 64, 82, 116, 123, 233}

\* the byte arrays of the tests: "RuSt", "Ru1t"
ExampleArrays == { <<82, 117, 83, 116>>, <<82, 117, 49, 116>> }

\* the first n values of f, as a tuple
RECURSIVE AsSeq(_, _)
AsSeq(f, n) == IF n = 0 THEN << >> ELSE Append(AsSeq(f, n - 1), f[n])

\* arrays at the edges of the letter and digit ranges:
\* "AZaz", "zaZA", and those with '@', '[', '`', '{', '/', ':', '0', '9'
BoundaryArrays ==
    { <<65, 90, 97, 122>>, <<122, 97, 90, 65>>,
      <<64, 90, 97, 122>>, <<65, 91, 97, 122>>, <<65, 90, 96, 122>>,
      <<65, 90, 97, 123>>, <<48, 57, 65, 122>>, <<65, 47, 58, 122>>,
      <<65, 90, 97, 127>>, <<128, 90, 97, 122>>, <<65, 90, 255, 122>> }

ByteArrays ==
    { AsSeq(f, ChunkLen) : f \in [1..ChunkLen -> ByteSamples] }
        \cup ExampleArrays \cup BoundaryArrays

\* NUL, '1', '@', 'R', 't', e-acute (2 bytes), euro sign (3 bytes)
CharSamples == {0, 49, 64, 82, 116, 233, 8364}

\* "RuSt", "ruSt", "RUSt", "Rust", "RuST", "Ru1t", grinning face (4 bytes)
ExampleTexts ==
    { <<82, 117, 83, 116>>, <<114, 117, 83, 116>>, <<82, 85, 83, 116>>,
      <<82, 117, 115, 116>>, <<82, 117, 83, 84>>, <<82, 117, 49, 116>>,
      <<128512>> }

\* texts at the edges of the letter ranges and of ASCII
BoundaryTexts ==
    { <<65, 90, 97, 122>>, <<122, 97, 90, 65>>, <<64, 91, 96, 123>>,
      <<91, 64, 123, 96>>, <<127, 127, 127, 127>>, <<127, 127, 127, 128>>,
      <<128>>, <<127, 128>>, <<2047, 2048>>, <<65535>>, <<65536>> }

\* ---------------------------------------------------------------- u8 / char
is_ascii_uppercase(b) == b >= 65 /\ b <= 90

is_ascii_lowercase(b) == b >= 97 /\ b <= 122

is_ascii_alphabetic(b) == is_ascii_uppercase(b) \/ is_ascii_lowercase(b)

\* c as u8
as_u8(c) == c % 256

\* ---------------------------------------------------------------- str
Utf8Encode(c) ==
    IF c < 128 THEN << c >>
    ELSE IF c < 2048 THEN << 192 + (c \div 64), 128 + (c % 64) >>
    ELSE IF c < 65536
      THEN << 224 + (c \div 4096), 128 + ((c \div 64) % 64), 128 + (c % 64) >>
      ELSE << 240 + (c \div 262144), 128 + ((c \div 4096) % 64),
              128 + ((c \div 64) % 64), 128 + (c % 64) >>

RECURSIVE as_bytes(_)
as_bytes(string) ==
    IF string = << >> THEN << >>
    ELSE Utf8Encode(Head(string)) \o as_bytes(Tail(string))

\* string.len(): the length in bytes
str_len(string) == Len(as_bytes(string))

\* string.is_ascii()
is_ascii(string) == \A i \in DOMAIN as_bytes(string) : as_bytes(string)[i] < 128

\* string.chars()
chars(string) == string

Utf8Width(b) ==
    IF b < 128 THEN 1
    ELSE IF b >= 194 /\ b <= 223 THEN 2
    ELSE IF b >= 224 /\ b <= 239 THEN 3
    ELSE IF b >= 240 /\ b <= 244 THEN 4
    ELSE 0

IsCont(b) == b >= 128 /\ b <= 191

Utf8SecondOk(b0, b1) ==
    CASE b0 = 224 -> b1 >= 160 /\ b1 <= 191
      [] b0 = 237 -> b1 >= 128 /\ b1 <= 159
      [] b0 = 240 -> b1 >= 144 /\ b1 <= 191
      [] b0 = 244 -> b1 >= 128 /\ b1 <= 143
      [] OTHER -> IsCont(b1)

Utf8CodePoint(v, w) ==
    CASE w = 1 -> v[1]
      [] w = 2 -> (v[1] % 32) * 64 + (v[2] % 64)
      [] w = 3 -> (v[1] % 16) * 4096 + (v[2] % 64) * 64 + (v[3] % 64)
      [] OTHER -> (v[1] % 8) * 262144 + (v[2] % 64) * 4096
                    + (v[3] % 64) * 64 + (v[4] % 64)

\* std::str::from_utf8(v): the decoded text, or an error
RECURSIVE from_utf8(_)
from_utf8(v) ==
    IF v = << >> THEN [ok |-> TRUE, text |-> << >>]
    ELSE LET w == Utf8Width(v[1]) IN
         IF \/ w = 0
            \/ Len(v) < w
            \/ (w >= 2 /\ ~Utf8SecondOk(v[1], v[2]))
            \/ \E i \in 3..w : ~IsCont(v[i])
         THEN [ok |-> FALSE, text |-> << >>]
         ELSE LET rest == from_utf8(SubSeq(v, w + 1, Len(v))) IN
              IF rest.ok
              THEN [ok |-> TRUE, text |-> << Utf8CodePoint(v, w) >> \o rest.text]
              ELSE rest

\* ---------------------------------------------------------------- Result
NoError == [kind |-> "none", bytes |-> << >>, got |-> 0]

\* "Invalid chunk type: {:?}"
InvalidChunkType(bytes) ==
    [kind |-> "InvalidChunkType", bytes |-> bytes, got |-> 0]

\* "Invalid string length. Expected 4, got {:?}"
InvalidLength(n) == [kind |-> "InvalidLength", bytes |-> << >>, got |-> n]

\* "The string contains non-ascii characters"
InvalidEncoding == [kind |-> "InvalidEncoding", bytes |-> << >>, got |-> 0]

\* struct ChunkType { bytes: [u8; 4] }
ChunkType(bytes) == [bytes |-> bytes]

Ok(v) == [tag |-> "Ok", val |-> << v >>, err |-> NoError]

Err(e) == [tag |-> "Err", val |-> << >>, err |-> e]

\* an index out of bounds, or unwrap() of an error
Panic == [tag |-> "Panic", val |-> << >>, err |-> NoError]

\* ---------------------------------------------------------------- ChunkType
\* variant: only upper-case letters are accepted
try_from_uppercase(bytes) ==
    IF \A i \in DOMAIN bytes : is_ascii_uppercase(bytes[i])
    THEN Ok(ChunkType(bytes))
    ELSE Err(InvalidChunkType(bytes))

\* variant: one letter is enough (any instead of all)
try_from_any(bytes) ==
    IF \E i \in DOMAIN bytes : is_ascii_alphabetic(bytes[i])
    THEN Ok(ChunkType(bytes))
    ELSE Err(InvalidChunkType(bytes))

\* variant: digits are accepted too (is_ascii_alphanumeric)
try_from_alphanumeric(bytes) ==
    IF \A i \in DOMAIN bytes :
          is_ascii_alphabetic(bytes[i]) \/ (bytes[i] >= 48 /\ bytes[i] <= 57)
    THEN Ok(ChunkType(bytes))
    ELSE Err(InvalidChunkType(bytes))

try_from(bytes) ==
    IF \A i \in DOMAIN bytes : is_ascii_alphabetic(bytes[i])
    THEN Ok(ChunkType(bytes))
    ELSE Err(InvalidChunkType(bytes))

\* [v; n]
RECURSIVE Repeat(_, _)
Repeat(v, n) == IF n = 0 THEN << >> ELSE Append(Repeat(v, n - 1), v)

\* variant: the loop stops one character early
RECURSIVE CopyChars_short(_, _, _)
CopyChars_short(bytes, cs, i) ==
    IF i + 1 >= Len(cs) THEN [done |-> TRUE, bytes |-> bytes]
    ELSE IF i >= ChunkLen THEN [done |-> FALSE, bytes |-> bytes]
    ELSE CopyChars_short([bytes EXCEPT ![i + 1] = as_u8(cs[i + 1])], cs, i + 1)

\* for (i, c) in string.chars().enumerate() { bytes[i] = c as u8; }
\* i is the 0-based index of the next character; done is FALSE when an index
\* fell outside the array
RECURSIVE CopyChars(_, _, _)
CopyChars(bytes, cs, i) ==
    IF i >= Len(cs) THEN [done |-> TRUE, bytes |-> bytes]
    ELSE IF i >= ChunkLen THEN [done |-> FALSE, bytes |-> bytes]
    ELSE CopyChars([bytes EXCEPT ![i + 1] = as_u8(cs[i + 1])], cs, i + 1)

\* variant: the length is not checked
from_str_any_length(string) ==
    CASE is_ascii(string) ->
           LET loop == CopyChars(Repeat(0, ChunkLen), chars(string), 0) IN
           IF loop.done THEN Ok(ChunkType(loop.bytes)) ELSE Panic
      [] OTHER -> Err(InvalidLength(str_len(string)))

\* variant: the encoding is not checked
from_str_any_encoding(string) ==
    CASE str_len(string) = ChunkLen ->
           LET loop == CopyChars(Repeat(0, ChunkLen), chars(string), 0) IN
           IF loop.done THEN Ok(ChunkType(loop.bytes)) ELSE Panic
      [] OTHER -> Err(InvalidEncoding)

from_str(string) ==
    CASE is_ascii(string) /\ str_len(string) = ChunkLen ->
           LET loop == CopyChars(Repeat(0, ChunkLen), chars(string), 0) IN
           IF loop.done THEN Ok(ChunkType(loop.bytes)) ELSE Panic
      [] ~is_ascii(string) -> Err(InvalidLength(str_len(string)))
      [] OTHER -> Err(InvalidEncoding)

\* Display::fmt, through to_string()
fmt(self) ==
    LET r == from_utf8(self.bytes) IN
    IF r.ok THEN [ok |-> TRUE, text |-> r.text]
    ELSE [ok |-> FALSE, text |-> << >>]

bytes_of(self) == self.bytes

is_critical(self) == is_ascii_uppercase(self.bytes[1])

\* variant: reads the first byte instead of the second
is_public_first_byte(self) == is_ascii_uppercase(self.bytes[1])

is_public(self) == is_ascii_uppercase(self.bytes[2])

is_reserved_bit_valid(self) == is_ascii_uppercase(self.bytes[3])

is_safe_to_copy(self) == is_ascii_lowercase(self.bytes[4])

\* variant: only the first byte is compared
eq_first_byte(self, other) == self.bytes[1] = other.bytes[1]

\* #[derive(PartialEq, Eq)]
eq(self, other) == self.bytes = other.bytes

\* ---------------------------------------------------------------- state
VARIABLES
    call,   \* the last construction call: its name and its argument
    ret,    \* what that call returned
    obs     \* the last operation applied to the constructed value

vars == << call, ret, obs >>

NoCall == [op |-> "none", arg |-> << >>]

\* nothing was returned yet
NoResult == [tag |-> "None", val |-> << >>, err |-> NoError]

NoObs ==
    [op |-> "none", other |-> NoCall, ok |-> TRUE, flag |-> FALSE, out |-> << >>]

Observed(op, ok, flag, out) ==
    [op |-> op, other |-> NoCall, ok |-> ok, flag |-> flag, out |-> out]

\* the value a construction call returns
Construct(c) == IF c.op = "try_from" THEN try_from(c.arg) ELSE from_str(c.arg)

\* the calls that build the right-hand side of a comparison
OtherCalls ==
    { [op |-> "try_from", arg |-> b] : b \in ByteArrays }
        \cup { [op |-> "from_str", arg |-> s] : s \in ExampleTexts }

\* those of them that return a value
OkOthers == { c \in OtherCalls : Construct(c).tag = "Ok" }

Init ==
    /\ call = NoCall
    /\ ret = NoResult
    /\ obs = NoObs

\* ChunkType::try_from(bytes)
TryFrom ==
    /\ call = NoCall
    /\ \E bytes \in ByteArrays :
          /\ call' = [op |-> "try_from", arg |-> bytes]
          /\ ret' = try_from(bytes)
    /\ obs' = NoObs

\* ChunkType::from_str(string)
FromStr ==
    /\ call = NoCall
    /\ \/ \E n \in 0..MaxLen :
             \E f \in [1..n -> CharSamples] :
                LET string == AsSeq(f, n) IN
                /\ call' = [op |-> "from_str", arg |-> string]
                /\ ret' = from_str(string)
       \/ \E string \in ExampleTexts \cup BoundaryTexts :
             /\ call' = [op |-> "from_str", arg |-> string]
             /\ ret' = from_str(string)
    /\ obs' = NoObs

\* the constructed value, when the call returned one
HasValue == ret.tag = "Ok"

Self == ret.val[1]

\* chunk.to_string()
ToString ==
    /\ HasValue
    /\ LET r == fmt(Self) IN obs' = Observed("fmt", r.ok, FALSE, r.text)
    /\ UNCHANGED << call, ret >>

\* chunk.bytes()
Bytes ==
    /\ HasValue
    /\ obs' = Observed("bytes", TRUE, FALSE, bytes_of(Self))
    /\ UNCHANGED << call, ret >>

IsCritical ==
    /\ HasValue
    /\ obs' = Observed("is_critical", TRUE, is_critical(Self), << >>)
    /\ UNCHANGED << call, ret >>

IsPublic ==
    /\ HasValue
    /\ obs' = Observed("is_public", TRUE, is_public(Self), << >>)
    /\ UNCHANGED << call, ret >>

IsReservedBitValid ==
    /\ HasValue
    /\ obs' = Observed("is_reserved_bit_valid", TRUE,
                       is_reserved_bit_valid(Self), << >>)
    /\ UNCHANGED << call, ret >>

IsSafeToCopy ==
    /\ HasValue
    /\ obs' = Observed("is_safe_to_copy", TRUE, is_safe_to_copy(Self), << >>)
    /\ UNCHANGED << call, ret >>

\* chunk == other, other built by a second construction call
Eq ==
    /\ HasValue
    /\ \E c \in OkOthers :
          LET other == Construct(c).val[1] IN
          obs' = [op |-> "eq", other |-> c, ok |-> TRUE,
                  flag |-> eq(Self, other), out |-> << >>]
    /\ UNCHANGED << call, ret >>

\* the result goes out of scope; the next value is built from scratch
Drop ==
    /\ call # NoCall
    /\ call' = NoCall
    /\ ret' = NoResult
    /\ obs' = NoObs

Next ==
    \/ TryFrom
    \/ FromStr
    \/ ToString
    \/ Bytes
    \/ IsCritical
    \/ IsPublic
    \/ IsReservedBitValid
    \/ IsSafeToCopy
    \/ Eq
    \/ Drop

Spec == Init /\ [][Next]_vars

\* ---------------------------------------------------------------- properties
Digit == 48..57

UpperCase == 65..90

LowerCase == 97..122

Alphabetic == UpperCase \cup LowerCase

Alphanumeric == Alphabetic \cup Digit

Ascii == 0..127

Args == DOMAIN call.arg

ByTryFrom == call.op = "try_from"

ByFromStr == call.op = "from_str"

\* C1, as stated: try_from succeeds on every array of four ASCII alphanumeric
\* bytes, and bytes() of the result is the array.
C1_AlphanumericAccepted ==
    (ByTryFrom /\ \A i \in Args : call.arg[i] \in Alphanumeric)
        => /\ ret.tag = "Ok"
           /\ obs.op = "bytes" => obs.out = call.arg

\* C1, amended: try_from succeeds on every array of four ASCII alphabetic
\* bytes (letters only), and bytes() of the result is the array.
C1_AlphabeticAccepted ==
    (ByTryFrom /\ \A i \in Args : call.arg[i] \in Alphabetic)
        => /\ ret.tag = "Ok"
           /\ obs.op = "bytes" => obs.out = call.arg

C1_Witness ==
    /\ ByTryFrom
    /\ call.arg = << 82, 116, 116, 82 >>
    /\ obs.op = "bytes"
    /\ obs.out = call.arg

\* C2: from_str of a text whose length is not 4 fails with the length error
\* ("Invalid string length. Expected 4, got N"), not the encoding error.
C2_WrongLengthIsInvalidLength ==
    (ByFromStr /\ Len(call.arg) # ChunkLen)
        => ret.tag = "Err" /\ ret.err.kind = "InvalidLength"

\* C3: from_str of a text with a non-ASCII character fails with the encoding
\* error ("The string contains non-ascii characters"), whatever its length.
C3_NonAsciiIsInvalidEncoding ==
    (ByFromStr /\ \E i \in Args : call.arg[i] \notin Ascii)
        => ret.tag = "Err" /\ ret.err.kind = "InvalidEncoding"

\* C4: try_from of an array with a byte that is not ASCII alphanumeric fails
\* with the InvalidChunkType error, which carries the array, and returns no
\* value.
C4_NonAlphanumericRejected ==
    (ByTryFrom /\ \E i \in Args : call.arg[i] \notin Alphanumeric)
        => /\ ret.tag = "Err"
           /\ ret.err.kind = "InvalidChunkType"
           /\ ret.err.bytes = call.arg
           /\ ret.val = << >>

C4_Witness ==
    /\ ByTryFrom
    /\ call.arg = << 82, 116, 64, 116 >>
    /\ ret.tag = "Err"
    /\ ret.err.bytes = call.arg

\* C5: from_str of a text of exactly 4 ASCII characters succeeds, byte i of
\* the value is the code point of character i, and to_string gives the text
\* back.
C5_AsciiTextRoundTrips ==
    (ByFromStr /\ Len(call.arg) = ChunkLen /\ \A i \in Args : call.arg[i] \in Ascii)
        => /\ ret.tag = "Ok"
           /\ \A i \in Args : ret.val[1].bytes[i] = call.arg[i]
           /\ obs.op = "fmt" => obs.ok /\ obs.out = call.arg

C5_Witness ==
    /\ ByFromStr
    /\ call.arg = << 0, 64, 49, 116 >>
    /\ obs.op = "fmt"
    /\ obs.out = call.arg

\* C6: is_critical, is_public and is_reserved_bit_valid hold iff byte 0, 1, 2
\* is an upper-case letter, is_safe_to_copy iff byte 3 is a lower-case letter.
C6_PredicatesReadTheirByte ==
    ret.tag = "Ok" =>
        /\ obs.op = "is_critical" => (obs.flag <=> Self.bytes[1] \in UpperCase)
        /\ obs.op = "is_public" => (obs.flag <=> Self.bytes[2] \in UpperCase)
        /\ obs.op = "is_reserved_bit_valid"
               => (obs.flag <=> Self.bytes[3] \in UpperCase)
        /\ obs.op = "is_safe_to_copy" => (obs.flag <=> Self.bytes[4] \in LowerCase)

C6_Witness ==
    /\ ret.tag = "Ok"
    /\ Self.bytes = << 82, 117, 83, 116 >>
    /\ obs.op = "is_public"
    /\ ~obs.flag

\* C7: two values compare equal iff their bytes are equal, whichever
\* constructor built them: they are equal iff the arguments of the two
\* construction calls (bytes, or code points) are the same sequence.
C7_EqualityIsStructural ==
    obs.op = "eq" =>
        /\ obs.flag <=> call.arg = obs.other.arg
        /\ obs.flag <=> Self.bytes = Construct(obs.other).val[1].bytes

C7_Witness ==
    /\ call = [op |-> "from_str", arg |-> << 82, 117, 83, 116 >>]
    /\ obs.op = "eq"
    /\ obs.other = [op |-> "try_from", arg |-> << 82, 117, 83, 116 >>]
    /\ obs.flag

\* C8: every construction call returns a value of four bytes or an error,
\* never panics, and a failed call returns no value.
C8_ConstructorsAreTotal ==
    call.op # "none" =>
        /\ ret.tag \in {"Ok", "Err"}
        /\ ret.tag = "Ok" =>
              /\ Len(ret.val) = 1
              /\ DOMAIN ret.val[1].bytes = 1..ChunkLen
              /\ \A i \in 1..ChunkLen : ret.val[1].bytes[i] \in 0..255
              /\ ret.err = NoError
        /\ ret.tag = "Err" => ret.val = << >> /\ ret.err.kind # "none"

C8_Witness ==
    /\ ByFromStr
    /\ Len(call.arg) > ChunkLen
    /\ \A i \in Args : call.arg[i] \in Ascii
    /\ ret.tag = "Err"
    /\ ret.val = << >>

\* C9: from_str of a text of 4 ASCII characters with a digit succeeds and
\* stores the digit's code point, and try_from of the same 4 code points fails.
C9_DigitsSplitTheConstructors ==
    (/\ ByFromStr
     /\ Len(call.arg) = ChunkLen
     /\ \A i \in Args : call.arg[i] \in Ascii
     /\ \E i \in Args : call.arg[i] \in Digit)
        => /\ ret.tag = "Ok"
           /\ \A i \in Args : call.arg[i] \in Digit => ret.val[1].bytes[i] = call.arg[i]
           /\ try_from(call.arg).tag = "Err"

C9_Witness ==
    /\ ByFromStr
    /\ call.arg = << 82, 117, 49, 116 >>
    /\ ret.tag = "Ok"
    /\ ret.val[1].bytes[3] = 49

\* C10: the bytes of every constructed value are ASCII, and to_string of it
\* does not panic and gives 4 characters whose code points are the bytes.
C10_ValuesAreAsciiAndRender ==
    ret.tag = "Ok" =>
        /\ \A i \in DOMAIN Self.bytes : Self.bytes[i] \in Ascii
        /\ obs.op = "fmt" => obs.ok /\ Len(obs.out) = ChunkLen /\ obs.out = Self.bytes

C10_Witness ==
    /\ ByTryFrom
    /\ ret.tag = "Ok"
    /\ obs.op = "fmt"
    /\ obs.ok
    /\ obs.out = << 82, 117, 83, 116 >>
====
